---- MODULE Spec2Model ----
(***************************************************************************)
(* The ingestion pipeline of init_data.py: the Upsert Engine               *)
(* (upsert_restaurant_record) over the restaurant_info table, the          *)
(* Streaming Orchestrator (process_files_streaming) with its file workers, *)
(* the cached resolvers (_geocode_naver_cached,                            *)
(* _get_category_from_naver_local), the choice among local-search          *)
(* candidates (_choose_best_local_place) and the text normalizer           *)
(* (_clean_text).                                                          *)
(*                                                                         *)
(* Text is a sequence of one-character strings, so that slicing and        *)
(* strip() are computed and not assumed.  Python's None is the integer     *)
(* None for the optional integer fields and the empty string NoText for    *)
(* the optional text columns (category, res_phone), which the code only    *)
(* ever tests for truthiness.  Coordinates are integers, 0 standing for    *)
(* the float 0.0.                                                          *)
(***************************************************************************)
EXTENDS Integers, Sequences, FiniteSets, TLC

(***************************************************************************)
(* Program constants.                                                      *)
(***************************************************************************)
None == -1
NoText == ""
NAME_CAP == 64
ADDR_CAP == 255
DB_RETRY_COUNT == 3
PRICE_CEILING == 1000000
PEOPLE_CEILING == 1000
DEFAULT_BATCH_SIZE == 300
CONFIDENT == 6

(***************************************************************************)
(* Bounds of the model.                                                    *)
(***************************************************************************)
MaxCalls == 3
MaxRuns == 2
MaxLimit == 2
NumFiles == 2
MaxBatch == 2
MaxLookups == 3
MaxItems == 2
MaxLen == 4
MaxRows == 2
\* MAX_GEOCODE_CACHE (2000 in the source), scaled down
GeocodeCacheSize == 2

(***************************************************************************)
(* Python helpers.                                                         *)
(***************************************************************************)
Truthy(x) == x # None /\ x # 0

Min2(a, b) == IF a <= b THEN a ELSE b
Max2(a, b) == IF a >= b THEN a ELSE b

\* x or y, on optional integers
OrElse(x, y) == IF Truthy(x) THEN x ELSE y

\* s[:cap]
Slice(s, cap) == SubSeq(s, 1, Min2(Len(s), cap))

RECURSIVE LStrip(_)
LStrip(s) == IF s # <<>> /\ Head(s) = " " THEN LStrip(Tail(s)) ELSE s

RECURSIVE RStrip(_)
RStrip(s) ==
    IF s # <<>> /\ s[Len(s)] = " " THEN RStrip(SubSeq(s, 1, Len(s) - 1)) ELSE s

\* s.strip()
Strip(s) == RStrip(LStrip(s))

\* a text of n copies of character c
Rep(c, n) == [i \in 1..n |-> c]

(***************************************************************************)
(* State.                                                                  *)
(*   store  the restaurant_info table: the sequence of its rows, a row's   *)
(*          res_id being its index (rows are never deleted)                *)
(*   hist   per row, the prices (None when absent) of the upsert calls     *)
(*          that created or matched it, in order                           *)
(*   last   the latest upsert call: its record, the row it matched         *)
(*          (0: none) and what it returned                                 *)
(*   calls  number of upsert calls made                                    *)
(***************************************************************************)
VARIABLES store, hist, last, calls

(***************************************************************************)
(* State of the Streaming Orchestrator and its workers.                    *)
(*   fileRows     the source directory: per file, the rows its parser and  *)
(*                the place splitter yield                                 *)
(*   answers      what the external resolvers answer                       *)
(*   entry, limit the entry point called and the limit it hands to         *)
(*                process_files_streaming (None when None is passed)       *)
(*   pc           where the orchestrator is                                *)
(*   fut          per file, its future: pending, running or finished, and  *)
(*                the records the worker returned                          *)
(*   taken        the futures as_completed has yielded                     *)
(*   queue        unique_records still to upsert for the current file      *)
(*   stats        the run's counters                                       *)
(*   global_seen  the run-global seen set                                  *)
(*   invoked      the keys upsert was invoked with in this run, in order   *)
(*   dbUsers      who is inside upsert_restaurant_record                   *)
(*   runs, snaps  runs ended, and the table at the end of each             *)
(***************************************************************************)
VARIABLES fileRows, answers, entry, limit, pc, fut, taken, queue, stats,
          global_seen, invoked, dbUsers, runs, snaps

pipeVars == <<fileRows, answers, entry, limit, pc, fut, taken, queue, stats,
              global_seen, invoked, dbUsers, runs, snaps>>

(***************************************************************************)
(* The environment of a run, and what a run has done to the table.         *)
(*   faults        whether a commit or a worker can raise                  *)
(*   base_dir      "present" or "missing"                                  *)
(*   batch_size    the batch_size handed to process_files_streaming        *)
(*   done_in_file  how many of the current file's unique_records have      *)
(*                 been upserted                                           *)
(*   batch_store   the table when the current batch began                  *)
(*   effects       in this run: rows inserted, upserts that changed and    *)
(*                 committed a row, commits                                *)
(*   attempts      the attempts the latest upsert call made                *)
(***************************************************************************)
VARIABLES faults, base_dir, batch_size, done_in_file, batch_store, effects,
          attempts

envVars == <<faults, base_dir, batch_size>>

runVars == <<done_in_file, batch_store, effects, attempts>>

(***************************************************************************)
(* State of the external resolvers (one process).                          *)
(*   credentials   which API credentials are configured                    *)
(*   region_hints  how many REGION_HINTS are configured                    *)
(*   geo_cache     the lru_cache of _geocode_naver_cached: its entries,    *)
(*                 least recently used first                               *)
(*   cat_cache     _LOCAL_CATEGORY_CACHE                                   *)
(*   lookup        the latest lookup and what it did                       *)
(*   lookups       number of lookups made                                  *)
(***************************************************************************)
VARIABLES credentials, region_hints, geo_cache, cat_cache, lookup, lookups

resolverVars == <<credentials, region_hints, geo_cache, cat_cache, lookup, lookups>>

(***************************************************************************)
(* A call of _choose_best_local_place: its arguments and what it returned  *)
(* (the position of the chosen item in items, 0 for None; -1 before the    *)
(* call).                                                                  *)
(***************************************************************************)
VARIABLES items, place, best

chooseVars == <<items, place, best>>

(***************************************************************************)
(* _clean_text applied to a text, and to the result again.                 *)
(***************************************************************************)
VARIABLES raw, cleaned

textVars == <<raw, cleaned>>

(***************************************************************************)
(* process_extracted_rows applied to the rows of one file.                 *)
(*   rows_in    the rows, each already split into name_clean, addr_clean   *)
(*   row_limit  the limit argument (None when None is passed)              *)
(*   emitted    whether the call was made, and the records it returned     *)
(***************************************************************************)
VARIABLES rows_in, row_limit, emitted

rowsVars == <<rows_in, row_limit, emitted>>

(***************************************************************************)
(* A row of a table on its way to a record, and a place text on its way    *)
(* through _split_place_and_address.                                       *)
(*   cells      the name and address cells of the table row                *)
(*   text       the place text handed to _split_place_and_address          *)
(*   extracted  whether _extract_rows_from_table has seen the row, and     *)
(*              the place_raw it built                                     *)
(*   parts      whether the text was split, and the (name, address)        *)
(*              returned                                                   *)
(*   place_out  whether process_extracted_rows has seen the extracted      *)
(*              row, and the records it returned                           *)
(***************************************************************************)
VARIABLES cells, text, extracted, parts, place_out

placeVars == <<cells, text, extracted, parts, place_out>>

otherVars == <<resolverVars, chooseVars, textVars, rowsVars, placeVars>>

vars == <<store, hist, last, calls, fileRows, answers, entry, limit, pc, fut,
          taken, queue, stats, global_seen, invoked, dbUsers, runs, snaps,
          faults, base_dir, batch_size, done_in_file, batch_store, effects,
          attempts, credentials, region_hints, geo_cache, cat_cache, lookup,
          lookups, items, place, best, raw, cleaned, rows_in, row_limit,
          emitted, cells, text, extracted, parts, place_out>>

(***************************************************************************)
(* Upsert Engine: upsert_restaurant_record.                                *)
(***************************************************************************)
Ids(st) == 1..Len(st)

\* Query.first(): some matching row (no ORDER BY), or none (0)
First(S) == IF S = {} THEN {0} ELSE S

\* FindExisting falling through from the exact pair to the address to the name
FindExisting_FallThrough(st, name, addr) ==
    LET exact == {i \in Ids(st) : st[i].res_name = name /\ st[i].address = addr}
        byAddr == {i \in Ids(st) : addr # <<>> /\ st[i].address = addr}
        byName == {i \in Ids(st) : name # <<>> /\ st[i].res_name = name}
    IN  IF exact # {} THEN exact
        ELSE IF byAddr # {} THEN byAddr
        ELSE First(byName)

\* FindExisting without the lookup by name alone: a record that has only a
\* name is always new
FindExisting_NoNameLookup(st, name, addr) ==
    IF name # <<>> /\ addr # <<>>
    THEN First({i \in Ids(st) : st[i].res_name = name /\ st[i].address = addr})
    ELSE IF addr # <<>>
    THEN First({i \in Ids(st) : st[i].address = addr})
    ELSE {0}

\* the rows `existing` can be, lines 1130-1153
FindExisting(st, name, addr) ==
    IF name # <<>> /\ addr # <<>>
    THEN First({i \in Ids(st) : st[i].res_name = name /\ st[i].address = addr})
    ELSE IF addr # <<>>
    THEN First({i \in Ids(st) : st[i].address = addr})
    ELSE IF name # <<>>
    THEN LET candidates == {i \in Ids(st) : st[i].res_name = name}
         IN  IF Cardinality(candidates) = 1 THEN candidates
             ELSE IF Cardinality(candidates) > 1
             THEN First({c \in candidates : st[c].address = <<>>})
             ELSE {0}
    ELSE {0}

\* UpdateCoords without the test of the stored pair
UpdateCoords_Overwrite(e, new_lat, new_lng) ==
    IF /\ Truthy(new_lat) /\ Truthy(new_lng)
       /\ (new_lat # 0 \/ new_lng # 0)
    THEN [e |-> [e EXCEPT !.lat = new_lat, !.lng = new_lng], upd |-> TRUE]
    ELSE [e |-> e, upd |-> FALSE]

\* lines 1160-1166
UpdateCoords(e, new_lat, new_lng) ==
    IF /\ Truthy(new_lat) /\ Truthy(new_lng)
       /\ (new_lat # 0 \/ new_lng # 0)
       /\ (~Truthy(e.lat) \/ ~Truthy(e.lng) \/ (e.lat = 0 /\ e.lng = 0))
    THEN [e |-> [e EXCEPT !.lat = new_lat, !.lng = new_lng], upd |-> TRUE]
    ELSE [e |-> e, upd |-> FALSE]

\* UpdatePrice averaging the old average and the new price without weights
UpdatePrice_Unweighted(e, new_price) ==
    IF Truthy(new_price) /\ new_price > 0
    THEN IF ~Truthy(e.price)
         THEN [e |-> [e EXCEPT !.price = new_price], upd |-> TRUE]
         ELSE LET old_count == OrElse(e.price_count, 1)
                  old_avg == OrElse(e.price_avg, OrElse(e.price, new_price))
                  new_avg == (old_avg + new_price) \div 2
              IN  [e |-> [e EXCEPT
                             !.price_count = old_count + 1,
                             !.price_min = Min2(OrElse(e.price_min, new_price), new_price),
                             !.price_max = Max2(OrElse(e.price_max, new_price), new_price),
                             !.price_avg = new_avg,
                             !.price = new_avg],
                   upd |-> TRUE]
    ELSE [e |-> e, upd |-> FALSE]

\* lines 1169-1184
UpdatePrice(e, new_price) ==
    IF Truthy(new_price) /\ new_price > 0
    THEN IF ~Truthy(e.price)
         THEN [e |-> [e EXCEPT !.price = new_price], upd |-> TRUE]
         ELSE LET old_count == OrElse(e.price_count, 1)
                  old_avg == OrElse(e.price_avg, OrElse(e.price, new_price))
                  new_count == old_count + 1
                  new_avg == (old_avg * old_count + new_price) \div new_count
              IN  [e |-> [e EXCEPT
                             !.price_count = new_count,
                             !.price_min = Min2(OrElse(e.price_min, new_price), new_price),
                             !.price_max = Max2(OrElse(e.price_max, new_price), new_price),
                             !.price_avg = new_avg,
                             !.price = new_avg],
                   upd |-> TRUE]
    ELSE [e |-> e, upd |-> FALSE]

\* lines 1187-1197
UpdatePeople(e, new_people) ==
    IF Truthy(new_people) /\ new_people > 0 /\ ~Truthy(e.people)
    THEN [e |-> [e EXCEPT !.people = new_people], upd |-> TRUE]
    ELSE [e |-> e, upd |-> FALSE]

\* UpdateCategory taking every incoming category (the latest one wins)
UpdateCategory_Overwrite(e, category) ==
    IF category # NoText
    THEN [e |-> [e EXCEPT !.category = category], upd |-> TRUE]
    ELSE [e |-> e, upd |-> FALSE]

\* lines 1200-1202
UpdateCategory(e, category) ==
    IF category # NoText /\ e.category = NoText
    THEN [e |-> [e EXCEPT !.category = category], upd |-> TRUE]
    ELSE [e |-> e, upd |-> FALSE]

\* lines 1205-1207
UpdatePhone(e, res_phone) ==
    IF res_phone # NoText /\ e.res_phone = NoText
    THEN [e |-> [e EXCEPT !.res_phone = res_phone], upd |-> TRUE]
    ELSE [e |-> e, upd |-> FALSE]

\* the update branch, lines 1155-1207: the five field rules in order
UpdateExisting(e, record) ==
    LET c == UpdateCoords(e, record.lat, record.lng)
        p == UpdatePrice(c.e, record.price)
        n == UpdatePeople(p.e, record.people_count)
        g == UpdateCategory(n.e, record.category)
        t == UpdatePhone(g.e, record.res_phone)
    IN  [e |-> t.e, upd |-> c.upd \/ p.upd \/ n.upd \/ g.upd \/ t.upd]

\* the insert branch, lines 1218-1241
NewRecord(name, addr, record) ==
    [res_name |-> name,
     address |-> addr,
     lat |-> record.lat,
     lng |-> record.lng,
     res_phone |-> record.res_phone,
     category |-> record.category,
     price |-> record.price,
     score |-> record.score,
     people |-> IF Truthy(record.people_count) THEN record.people_count ELSE None,
     price_min |-> IF Truthy(record.price) THEN record.price ELSE None,
     price_max |-> IF Truthy(record.price) THEN record.price ELSE None,
     price_avg |-> IF Truthy(record.price) THEN record.price ELSE None,
     price_count |-> IF Truthy(record.price) THEN 1 ELSE 0]

\* name and addr of lines 1116-1117
KeyName(record) == Strip(Slice(record.res_name, NAME_CAP))
KeyAddr(record) == Strip(Slice(record.address, ADDR_CAP))

\* the validation of lines 1120-1124: the error message, NoText when valid
Invalid(record) ==
    IF KeyName(record) = <<>> /\ KeyAddr(record) = <<>> THEN "Empty name and address"
    ELSE IF KeyName(record) # <<>> /\ Len(KeyName(record)) < 2 THEN "Name too short"
    ELSE NoText

\* the rows the call can take as `existing` (0: none)
Matches(st, record) ==
    IF Invalid(record) # NoText THEN {0}
    ELSE FindExisting(st, KeyName(record), KeyAddr(record))

Returned(st, ex, created, updated, error) ==
    [store |-> st, existing |-> ex, created |-> created, updated |-> updated,
     error |-> error]

\* the call without the rollback of line 1248: the row of a failed insert
\* stays in the session and reaches the table
upsert_restaurant_record_NoRollback(st, record, ex, fails) ==
    IF Invalid(record) # NoText
    THEN Returned(st, 0, FALSE, FALSE, Invalid(record))
    ELSE IF ex # 0
    THEN LET u == UpdateExisting(st[ex], record)
         IN  IF ~u.upd THEN Returned(st, ex, FALSE, FALSE, NoText)
             ELSE IF fails >= DB_RETRY_COUNT
             THEN Returned([st EXCEPT ![ex] = u.e], ex, FALSE, FALSE, "commit failed")
             ELSE Returned([st EXCEPT ![ex] = u.e], ex, FALSE, TRUE, NoText)
    ELSE IF fails >= DB_RETRY_COUNT
    THEN Returned(Append(st, NewRecord(KeyName(record), KeyAddr(record), record)),
                  0, FALSE, FALSE, "commit failed")
    ELSE Returned(Append(st, NewRecord(KeyName(record), KeyAddr(record), record)),
                  0, TRUE, FALSE, NoText)

\* the call with an update that survives the rollback: after a failed
\* attempt the retry applies the observation to the row already changed
upsert_restaurant_record_Reapplied(st, record, ex, fails) ==
    IF Invalid(record) # NoText
    THEN Returned(st, 0, FALSE, FALSE, Invalid(record))
    ELSE IF ex # 0
    THEN LET u == UpdateExisting(st[ex], record)
             again == UpdateExisting(u.e, record)
         IN  IF ~u.upd THEN Returned(st, ex, FALSE, FALSE, NoText)
             ELSE IF fails >= DB_RETRY_COUNT
             THEN Returned(st, ex, FALSE, FALSE, "commit failed")
             ELSE IF fails = 0
             THEN Returned([st EXCEPT ![ex] = u.e], ex, FALSE, TRUE, NoText)
             ELSE Returned([st EXCEPT ![ex] = again.e], ex, FALSE, TRUE, NoText)
    ELSE IF fails >= DB_RETRY_COUNT
    THEN Returned(st, 0, FALSE, FALSE, "commit failed")
    ELSE Returned(Append(st, NewRecord(KeyName(record), KeyAddr(record), record)),
                  0, TRUE, FALSE, NoText)

\* The whole call, lines 1111-1256.  ex is the row the query returned and
\* fails the number of leading attempts whose commit raises: a failed
\* attempt is rolled back and the next one starts from the unchanged table,
\* so the call applies the observation once or, with every attempt failing,
\* returns the error and leaves the table as it was.
upsert_restaurant_record(st, record, ex, fails) ==
    IF Invalid(record) # NoText
    THEN Returned(st, 0, FALSE, FALSE, Invalid(record))
    ELSE IF ex # 0
    THEN LET u == UpdateExisting(st[ex], record)
         IN  IF ~u.upd THEN Returned(st, ex, FALSE, FALSE, NoText)
             ELSE IF fails >= DB_RETRY_COUNT
             THEN Returned(st, ex, FALSE, FALSE, "commit failed")
             ELSE Returned([st EXCEPT ![ex] = u.e], ex, FALSE, TRUE, NoText)
    ELSE IF fails >= DB_RETRY_COUNT
    THEN Returned(st, 0, FALSE, FALSE, "commit failed")
    ELSE Returned(Append(st, NewRecord(KeyName(record), KeyAddr(record), record)),
                  0, TRUE, FALSE, NoText)

\* the passes of the retry loop (line 1127) the call makes: none for an
\* invalid record, one when nothing is committed, else one per failing commit
\* and the one that succeeds, DB_RETRY_COUNT at most
Attempts(st, record, ex, fails) ==
    IF Invalid(record) # NoText THEN 0
    ELSE IF ex # 0 /\ ~UpdateExisting(st[ex], record).upd THEN 1
    ELSE Min2(fails + 1, DB_RETRY_COUNT)

\* the observations a row has received, after a call returned r
Observed(h, record, r) ==
    IF r.error # NoText THEN h
    ELSE IF r.created THEN Append(h, <<record.price>>)
    ELSE [h EXCEPT ![r.existing] = Append(@, record.price)]

LastCall(record, r) ==
    [record |-> record, existing |-> r.existing, created |-> r.created,
     updated |-> r.updated, error |-> r.error]

(***************************************************************************)
(* The records the engine is called with.  A record is what                *)
(* process_extracted_rows emits (lines 1090-1100): coordinates both zero   *)
(* or both resolved, a price absent or >= 0.                               *)
(***************************************************************************)
Rec(name, addr, lat, lng, price, people, category, phone) ==
    [res_name |-> name, address |-> addr, lat |-> lat, lng |-> lng,
     res_phone |-> phone, category |-> category, price |-> price,
     people_count |-> people, score |-> 0]

N1 == <<"a", "b">>
N2 == <<"c", "d">>
N1Padded == <<"a", "b", " ">>
ShortName == <<"x">>
A1 == <<"r", "1">>
A2 == <<"r", "2">>

KeyRecords ==
    {Rec(n, a, 0, 0, None, None, NoText, NoText) :
        n \in {<<>>, N1, N2, N1Padded, ShortName}, a \in {<<>>, A1, A2}}

PriceRecords ==
    {Rec(N1, a, 0, 0, p, None, NoText, NoText) :
        a \in {<<>>, A1}, p \in {0, 10000, 20000, 15001}}

CoordRecords ==
    {Rec(N1, A1, c, c, None, None, NoText, NoText) : c \in {1, 2}}

TextRecords ==
    {Rec(N1, A1, 0, 0, None, None, g, NoText) : g \in {"korean", "cafe"}}
    \cup {Rec(N1, A1, 0, 0, None, None, NoText, ph) : ph \in {"02-1", "02-2"}}
    \cup {Rec(N1, A1, 0, 0, None, 4, NoText, NoText)}

UpsertInputs == KeyRecords \cup PriceRecords \cup CoordRecords \cup TextRecords

NoCall ==
    [record |-> Rec(<<>>, <<>>, 0, 0, None, None, NoText, NoText),
     existing |-> 0, created |-> FALSE, updated |-> FALSE, error |-> NoText]

(***************************************************************************)
(* Workers: _worker_parse_and_process and process_extracted_rows from the  *)
(* point where a row has been split into name_clean and addr_clean.        *)
(***************************************************************************)
Row(name, addr, people, amount) ==
    [name_clean |-> name, addr_clean |-> addr, people |-> people, amount |-> amount]

\* a price that is never divided by the person count
PriceOf_Raw(people, amount) ==
    IF amount # None /\ amount > 0
    THEN IF amount > PRICE_CEILING THEN None ELSE amount
    ELSE None

\* lines 1042-1051
PriceOf(people, amount) ==
    IF amount # None /\ amount > 0
    THEN LET price == IF Truthy(people) /\ people > 0 THEN amount \div people ELSE amount
         IN  IF price > PRICE_CEILING THEN None ELSE price
    ELSE None

\* lines 1054-1058
PeopleOf(people) ==
    IF people # None /\ people > 0 /\ people <= PEOPLE_CEILING THEN people ELSE None

\* lines 1061-1067: the geocoder's answer for addr_clean or name_clean, both
\* coordinates or the sentinel
GeocodeOf(name, addr) ==
    IF (IF addr # <<>> THEN addr ELSE name) \in answers.geocoded THEN 1 ELSE 0

\* lines 1070-1087
CategoryOf(name) ==
    IF name # <<>> /\ name \in answers.categorized THEN "korean" ELSE NoText

\* a dedup key made of the untruncated pair
RowKey_Full(row) == <<row.name_clean, row.addr_clean>>

\* the dedup key, line 1036
RowKey(row) == <<Slice(row.name_clean, NAME_CAP), Slice(row.addr_clean, ADDR_CAP)>>

\* lines 1090-1100
EmitRecord(row) ==
    Rec(Slice(row.name_clean, NAME_CAP), Slice(row.addr_clean, ADDR_CAP),
        GeocodeOf(row.name_clean, row.addr_clean),
        GeocodeOf(row.name_clean, row.addr_clean),
        PriceOf(row.people, row.amount), PeopleOf(row.people),
        CategoryOf(row.name_clean), NoText)

\* the loop of process_extracted_rows, lines 999-1106
RECURSIVE ProcessRows(_, _, _, _)
ProcessRows(rows, lim, seen_keys, results) ==
    IF rows = <<>> THEN results
    ELSE LET row == Head(rows)
         IN  IF row.name_clean = <<>> /\ row.addr_clean = <<>>
             THEN ProcessRows(Tail(rows), lim, seen_keys, results)
             ELSE IF RowKey(row) \in seen_keys
             THEN ProcessRows(Tail(rows), lim, seen_keys, results)
             ELSE IF Truthy(lim) /\ Len(results) + 1 >= lim
             THEN Append(results, EmitRecord(row))
             ELSE ProcessRows(Tail(rows), lim, seen_keys \cup {RowKey(row)},
                              Append(results, EmitRecord(row)))

process_extracted_rows(rows, lim) == ProcessRows(rows, lim, {}, <<>>)

\* lines 85-89
WorkerResult(f) ==
    IF fileRows[f] = <<>> THEN <<>> ELSE process_extracted_rows(fileRows[f], None)

(***************************************************************************)
(* Orchestrator helpers.                                                   *)
(***************************************************************************)
Files == 1..NumFiles

Main == <<"main", 0>>
Worker(f) == <<"worker", f>>

RecordKey(rec) == <<rec.res_name, rec.address>>

ZeroStats ==
    [created |-> 0, updated |-> 0, skipped |-> 0, errors |-> 0, total_processed |-> 0]

ZeroEffects == [inserted |-> 0, changed |-> 0, commits |-> 0]

\* what a call has done to the table, read off the table before and after:
\* a row more (commit of line 1244), or a row changed (commit of line 1211)
Effects(eff, before, after) ==
    IF Len(after) > Len(before)
    THEN [eff EXCEPT !.inserted = @ + 1, !.commits = @ + 1]
    ELSE IF after # before
    THEN [eff EXCEPT !.changed = @ + 1, !.commits = @ + 1]
    ELSE eff

\* how many leading commits of a call raise
FailChoices == IF faults THEN 0..DB_RETRY_COUNT ELSE {0}

\* stats with the counters only, total_processed left out (a tally that
\* forgets line 1808)
Tally_NoTotal(st, r) ==
    IF r.error # NoText THEN [st EXCEPT !.errors = @ + 1]
    ELSE IF r.created THEN [st EXCEPT !.created = @ + 1]
    ELSE IF r.updated THEN [st EXCEPT !.updated = @ + 1]
    ELSE [st EXCEPT !.skipped = @ + 1]

\* lines 1798-1808
Tally(st, r) ==
    IF r.error # NoText
    THEN [st EXCEPT !.errors = @ + 1, !.total_processed = @ + 1]
    ELSE IF r.created
    THEN [st EXCEPT !.created = @ + 1, !.total_processed = @ + 1]
    ELSE IF r.updated
    THEN [st EXCEPT !.updated = @ + 1, !.total_processed = @ + 1]
    ELSE [st EXCEPT !.skipped = @ + 1, !.total_processed = @ + 1]

\* records[:remaining_limit], lines 1773-1778 (limit is an integer here)
Truncated(records, lim, processed) ==
    IF lim > 0 /\ lim - processed < Len(records)
    THEN Slice(records, lim - processed)
    ELSE records

\* a global dedup that never consults the seen set
GlobalDedup_Blind(records, seen) ==
    [unique |-> records, seen |-> seen \cup {RecordKey(records[k]) : k \in 1..Len(records)}]

\* lines 1781-1786
RECURSIVE GlobalDedup(_, _)
GlobalDedup(records, seen) ==
    IF records = <<>> THEN [unique |-> <<>>, seen |-> seen]
    ELSE IF RecordKey(Head(records)) \in seen
    THEN GlobalDedup(Tail(records), seen)
    ELSE LET rest == GlobalDedup(Tail(records), seen \cup {RecordKey(Head(records))})
         IN  [unique |-> <<Head(records)>> \o rest.unique, seen |-> rest.seen]

\* lines 1811, 1814, 1834
LimitReached(lim, processed) == lim > 0 /\ processed >= lim

\* the limit each entry point hands on, lines 1853-1911
EffectiveLimit(e, arg) ==
    IF e = "refresh_init_data_and_insert_streaming"
    THEN IF arg # None THEN Max2(0, arg) ELSE 0
    ELSE arg

EntryPoints ==
    {"process_files_streaming", "scan_and_upsert_streaming",
     "refresh_init_data_and_insert", "refresh_init_data_and_insert_streaming"}

LimitArgs == {None} \cup 0..MaxLimit

(***************************************************************************)
(* The source directories and resolver answers explored.                   *)
(***************************************************************************)
LongA == Rep("k", NAME_CAP) \o <<"a">>
LongB == Rep("k", NAME_CAP) \o <<"b">>

FileContents ==
    {<<>>,
     <<Row(N1, A1, 5, 250000), Row(N1, A1, 0, 300000)>>,
     <<Row(N1, A1, None, 20000), Row(N2, <<>>, None, None)>>,
     <<Row(LongA, <<>>, None, 10000), Row(LongB, <<>>, None, 20000)>>}

ResolverAnswers ==
    {[geocoded |-> {}, categorized |-> {}],
     [geocoded |-> {A1}, categorized |-> {N1}]}

NoFuture == [state |-> "pending", result |-> <<>>]

\* the orchestrator before any run
PipelineIdle ==
    /\ pc = "idle"
    /\ fut = [f \in Files |-> NoFuture]
    /\ taken = {}
    /\ queue = <<>>
    /\ stats = ZeroStats
    /\ global_seen = {}
    /\ invoked = <<>>
    /\ dbUsers = {}
    /\ runs = 0
    /\ snaps = <<>>
    /\ done_in_file = 0
    /\ batch_store = <<>>
    /\ effects = ZeroEffects
    /\ attempts = 0

\* a directory that exists, a database and workers that do not fail
NoFaults ==
    /\ faults = FALSE
    /\ base_dir = "present"
    /\ batch_size = DEFAULT_BATCH_SIZE

\* no pipeline: an empty directory, never run
PipelineOff ==
    /\ fileRows = [f \in Files |-> <<>>]
    /\ answers = [geocoded |-> {}, categorized |-> {}]
    /\ entry = "process_files_streaming"
    /\ limit = 0
    /\ NoFaults
    /\ PipelineIdle

(***************************************************************************)
(* External resolvers: _geocode_naver_cached and                           *)
(* _get_category_from_naver_local.  What the service does with a request   *)
(* is an answer; a service is the answer to the first request of a query   *)
(* and the answer a second request of the same query would get.            *)
(***************************************************************************)
GeoAnswers == {"ok", "no_addresses", "unusable", "http_error", "timeout", "conn_error"}

LocalAnswers == {"ok", "no_candidate", "no_items", "http_error", "timeout", "conn_error"}

\* the failures that can pass: timeout, connection error, non-200 status
Transient == {"http_error", "timeout", "conn_error"}

ServicesOf(answers_) ==
    {[first |-> a, retry |-> a] : a \in answers_}
    \cup {[first |-> a, retry |-> "ok"] : a \in answers_ \cap Transient}

\* the exception requests.get raises for an answer, NoText when it returns
Raises(answer) ==
    IF answer = "timeout" THEN "Timeout"
    ELSE IF answer = "conn_error" THEN "ConnectionError"
    ELSE NoText

\* a geocoder that only handles requests.Timeout (no `except Exception`)
GeocodeCaught_TimeoutOnly == {"Timeout"}

\* the exceptions the except clauses of lines 651-656 catch
GeocodeCaught == {"Timeout", "ConnectionError"}

Unresolved == [addr |-> NoText, lat |-> None, lng |-> None]

ResolvedAt(keyword) == [addr |-> keyword, lat |-> 1, lng |-> 1]

\* the loop over queries, lines 628-656: one request per query
RECURSIVE GeocodeQueries(_, _, _)
GeocodeQueries(keyword, services, requests) ==
    IF services = <<>>
    THEN [value |-> Unresolved, raised |-> FALSE, requests |-> requests]
    ELSE LET answer == Head(services).first
         IN  IF Raises(answer) # NoText /\ Raises(answer) \notin GeocodeCaught
             THEN [value |-> Unresolved, raised |-> TRUE, requests |-> requests + 1]
             ELSE IF answer = "ok"
             THEN [value |-> ResolvedAt(keyword), raised |-> FALSE,
                   requests |-> requests + 1]
             ELSE GeocodeQueries(keyword, Tail(services), requests + 1)

\* the body of _geocode_naver_cached, lines 617-658
GeocodeBody(keyword, services) ==
    IF ~credentials.geocode
    THEN [value |-> Unresolved, raised |-> FALSE, requests |-> 0]
    ELSE GeocodeQueries(keyword, services, 0)

\* queries of line 626: one per region hint, or the bare keyword
NumQueries == IF region_hints = 0 THEN 1 ELSE region_hints

\* lru_cache(maxsize=MAX_GEOCODE_CACHE), line 614
CachedAt(cache, key) ==
    IF \E i \in 1..Len(cache) : cache[i].key = key
    THEN CHOOSE i \in 1..Len(cache) : cache[i].key = key
    ELSE 0

Without(cache, i) == SubSeq(cache, 1, i - 1) \o SubSeq(cache, i + 1, Len(cache))

LruTouch(cache, i) == Append(Without(cache, i), cache[i])

LruInsert(cache, key, value, maxsize) ==
    LET grown == Append(cache, [key |-> key, value |-> value])
    IN  IF Len(grown) > maxsize THEN Tail(grown) ELSE grown

\* lines 1061-1067 of process_extracted_rows: the coordinates of the row
RowCoords(geo) ==
    IF Truthy(geo.lat) /\ Truthy(geo.lng) THEN <<geo.lat, geo.lng>> ELSE <<0, 0>>

\* _call_naver_local_search, lines 108-141, and what _get_category makes of
\* it, lines 230-257: one request, whose exceptions line 130 catches
LocalBody(name, addr, service) ==
    IF name = <<>> /\ addr = <<>>
    THEN [value |-> NoText, raised |-> FALSE, requests |-> 0]
    ELSE IF ~credentials.local
    THEN [value |-> NoText, raised |-> FALSE, requests |-> 0]
    ELSE IF service.first = "ok"
    THEN [value |-> "korean", raised |-> FALSE, requests |-> 1]
    ELSE [value |-> NoText, raised |-> FALSE, requests |-> 1]

\* the dict _LOCAL_CATEGORY_CACHE with one more entry
DictPut(cache, key, value) ==
    [k \in DOMAIN cache \cup {key} |-> IF k = key THEN value ELSE cache[k]]

\* a lookup and what it did: the requests it sent, what it returned (geo
\* for the geocoder, category for the local search), whether it raised, and
\* the coordinates process_extracted_rows gives the row
Looked(kind, hit, r, all_failed, healable) ==
    [kind |-> kind, hit |-> hit, requests |-> r.requests,
     geo |-> IF kind = "geocode" THEN r.value ELSE Unresolved,
     category |-> IF kind = "category" THEN r.value ELSE NoText,
     raised |-> r.raised, all_failed |-> all_failed, healable |-> healable,
     coords |-> IF kind = "geocode" THEN RowCoords(r.value) ELSE <<0, 0>>]

NoLookup ==
    Looked("none", FALSE, [value |-> NoText, raised |-> FALSE, requests |-> 0],
           FALSE, FALSE)

\* some query failed in passing and a second request of it would succeed,
\* and no query succeeded at once
Healable(services) ==
    /\ \E q \in 1..Len(services) :
          services[q].first \in Transient /\ services[q].retry = "ok"
    /\ \A q \in 1..Len(services) : services[q].first # "ok"

ResolverOff ==
    /\ credentials = [geocode |-> FALSE, local |-> FALSE]
    /\ region_hints = 0
    /\ geo_cache = <<>>
    /\ cat_cache = <<>>
    /\ lookup = NoLookup
    /\ lookups = 0

ChooseOff == items = <<>> /\ place = <<>> /\ best = -1

TextOff == raw = <<>> /\ cleaned = <<>>

NotEmitted == [done |-> FALSE, records |-> <<>>]

RowsOff == rows_in = <<>> /\ row_limit = None /\ emitted = NotEmitted

NoCells == [name |-> <<>>, addr |-> <<>>]

NotExtracted == [done |-> FALSE, place_raw |-> <<>>]

NotSplit == [done |-> FALSE, name |-> <<>>, addr |-> <<>>]

PlaceOff ==
    /\ cells = NoCells
    /\ text = <<>>
    /\ extracted = NotExtracted
    /\ parts = NotSplit
    /\ place_out = NotEmitted

OthersOff == ResolverOff /\ ChooseOff /\ TextOff /\ RowsOff /\ PlaceOff

TableEmpty ==
    /\ store = <<>>
    /\ hist = <<>>
    /\ last = NoCall
    /\ calls = 0

(***************************************************************************)
(* SpecUpsert: any sequence of upsert calls, one at a time, on a table     *)
(* that starts empty and whose commits succeed.                            *)
(***************************************************************************)
InitUpsert ==
    /\ store = <<>>
    /\ hist = <<>>
    /\ last = NoCall
    /\ calls = 0
    /\ PipelineOff
    /\ OthersOff

UpsertCall ==
    /\ calls < MaxCalls
    /\ \E record \in UpsertInputs :
       \E ex \in Matches(store, record) :
          LET r == upsert_restaurant_record(store, record, ex, 0)
          IN  /\ store' = r.store
              /\ hist' = Observed(hist, record, r)
              /\ last' = LastCall(record, r)
              /\ calls' = calls + 1
              /\ UNCHANGED <<pipeVars, envVars, otherVars, runVars>>

NextUpsert == UpsertCall

SpecUpsert == InitUpsert /\ [][NextUpsert]_vars

(***************************************************************************)
(* Spec: runs of the pipeline through its entry points, over a directory   *)
(* and resolver answers that stay the same from run to run; the table      *)
(* starts empty, commits succeed and no worker raises.                     *)
(***************************************************************************)
Init ==
    /\ store = <<>>
    /\ hist = <<>>
    /\ last = NoCall
    /\ calls = 0
    /\ fileRows \in [Files -> FileContents]
    /\ answers \in ResolverAnswers
    /\ entry \in EntryPoints
    /\ \E arg \in LimitArgs : limit = EffectiveLimit(entry, arg)
    /\ NoFaults
    /\ PipelineIdle
    /\ OthersOff

\* an entry point is called: lines 1725-1756, every file submitted to the pool
StartRun ==
    /\ pc \in {"idle", "done", "raised"}
    /\ runs < MaxRuns
    /\ base_dir = "present"
    /\ pc' = "loop"
    /\ fut' = [f \in Files |-> NoFuture]
    /\ taken' = {}
    /\ queue' = <<>>
    /\ stats' = ZeroStats
    /\ global_seen' = {}
    /\ invoked' = <<>>
    /\ done_in_file' = 0
    /\ batch_store' = store
    /\ effects' = ZeroEffects
    /\ attempts' = 0
    /\ UNCHANGED <<store, hist, last, calls, fileRows, answers, entry, limit,
                   dbUsers, runs, snaps, envVars, otherVars>>

\* a pool process picks the file's task up
WorkerStart(f) ==
    /\ pc \in {"loop", "batch", "upsert", "shutdown", "unwinding"}
    /\ fut[f].state = "pending"
    /\ fut' = [fut EXCEPT ![f].state = "running"]
    /\ UNCHANGED <<store, hist, last, calls, fileRows, answers, entry, limit, pc,
                   taken, queue, stats, global_seen, invoked, dbUsers, runs, snaps,
                   envVars, otherVars, runVars>>

\* a worker that upserts its first record itself instead of only returning
\* its records
WorkerUpserting(f) ==
    /\ fut[f].state = "running"
    /\ fut' = [fut EXCEPT ![f] = [state |-> "finished", result |-> WorkerResult(f)]]
    /\ dbUsers' = dbUsers \cup {Worker(f)}
    /\ IF WorkerResult(f) = <<>> THEN store' = store
       ELSE \E ex \in Matches(store, WorkerResult(f)[1]) :
               store' = upsert_restaurant_record(store, WorkerResult(f)[1], ex, 0).store
    /\ UNCHANGED <<hist, last, calls, fileRows, answers, entry, limit, pc,
                   taken, queue, stats, global_seen, invoked, runs, snaps,
                   envVars, otherVars, runVars>>

\* _worker_parse_and_process returns, lines 78-89: records only
WorkerFinish(f) ==
    /\ fut[f].state = "running"
    /\ fut' = [fut EXCEPT ![f] = [state |-> "finished", result |-> WorkerResult(f)]]
    /\ UNCHANGED <<store, hist, last, calls, fileRows, answers, entry, limit, pc,
                   taken, queue, stats, global_seen, invoked, dbUsers, runs, snaps,
                   envVars, otherVars, runVars>>

\* one turn of the as_completed loop up to the batch loop, lines 1759-1789
TakeCompleted(f) ==
    /\ pc = "loop"
    /\ fut[f].state = "finished"
    /\ f \notin taken
    /\ taken' = taken \cup {f}
    /\ LET records == fut[f].result
       IN  IF records = <<>>
           THEN /\ pc' = "loop"
                /\ UNCHANGED <<queue, global_seen, done_in_file, batch_store>>
           ELSE IF limit = None
           THEN \* line 1773, None > 0: TypeError
                /\ pc' = "unwinding"
                /\ UNCHANGED <<queue, global_seen, done_in_file, batch_store>>
           ELSE IF limit > 0 /\ limit - stats.total_processed <= 0
           THEN /\ pc' = "shutdown"
                /\ UNCHANGED <<queue, global_seen, done_in_file, batch_store>>
           ELSE LET d == GlobalDedup(Truncated(records, limit, stats.total_processed),
                                     global_seen)
                IN  /\ global_seen' = d.seen
                    /\ queue' = d.unique
                    /\ pc' = IF d.unique = <<>> THEN "loop" ELSE "batch"
                    \* line 1792: the first batch of the file begins
                    /\ done_in_file' = 0
                    /\ batch_store' = store
    /\ UNCHANGED <<store, hist, last, calls, fileRows, answers, entry, limit, fut,
                   stats, invoked, dbUsers, runs, snaps, envVars, otherVars, effects,
                   attempts>>

\* line 1796, the call is entered
UpsertBegin ==
    /\ pc = "batch"
    /\ pc' = "upsert"
    /\ dbUsers' = dbUsers \cup {Main}
    /\ UNCHANGED <<store, hist, last, calls, fileRows, answers, entry, limit, fut,
                   taken, queue, stats, global_seen, invoked, runs, snaps,
                   envVars, otherVars, runVars>>

\* the call returns and the record is tallied, lines 1796-1815 and 1834
UpsertEnd ==
    /\ pc = "upsert"
    /\ \E ex \in Matches(store, Head(queue)), fails \in FailChoices :
          LET r == upsert_restaurant_record(store, Head(queue), ex, fails)
              tallied == Tally(stats, r)
          IN  /\ store' = r.store
              /\ attempts' = Attempts(store, Head(queue), ex, fails)
              /\ effects' = Effects(effects, store, r.store)
              /\ done_in_file' = done_in_file + 1
              \* line 1792: after batch_size records the next batch begins
              /\ batch_store' = IF (done_in_file + 1) % batch_size = 0
                                THEN r.store ELSE batch_store
              /\ hist' = Observed(hist, Head(queue), r)
              /\ last' = LastCall(Head(queue), r)
              /\ calls' = calls + 1
              /\ stats' = tallied
              /\ invoked' = Append(invoked, RecordKey(Head(queue)))
              /\ queue' = Tail(queue)
              /\ dbUsers' = dbUsers \ {Main}
              /\ pc' = IF LimitReached(limit, tallied.total_processed) THEN "shutdown"
                       ELSE IF Tail(queue) = <<>> THEN "loop"
                       ELSE "batch"
    /\ UNCHANGED <<fileRows, answers, entry, limit, fut, taken, global_seen,
                   runs, snaps, envVars, otherVars>>

\* as_completed is exhausted
LoopEnd ==
    /\ pc = "loop"
    /\ taken = Files
    /\ pc' = "shutdown"
    /\ UNCHANGED <<store, hist, last, calls, fileRows, answers, entry, limit, fut,
                   taken, queue, stats, global_seen, invoked, dbUsers, runs, snaps,
                   envVars, otherVars, runVars>>

\* the with-block ends once every submitted task has run (shutdown waits);
\* the entry point then returns stats, or the exception leaves it
Return ==
    /\ pc \in {"shutdown", "unwinding"}
    /\ \A f \in Files : fut[f].state \in {"finished", "failed"}
    /\ pc' = IF pc = "shutdown" THEN "done" ELSE "raised"
    /\ runs' = runs + 1
    /\ snaps' = Append(snaps, store)
    /\ UNCHANGED <<store, hist, last, calls, fileRows, answers, entry, limit, fut,
                   taken, queue, stats, global_seen, invoked, dbUsers, envVars, otherVars,
                   runVars>>

(***************************************************************************)
(* Faults: a worker whose parser raises, a future that carries the         *)
(* exception, and a base directory that does not exist.                    *)
(***************************************************************************)
\* parse_file or process_extracted_rows raises in the worker, lines 85-89
WorkerRaise(f) ==
    /\ faults
    /\ fut[f].state = "running"
    /\ fut' = [fut EXCEPT ![f] = [state |-> "failed", result |-> <<>>]]
    /\ UNCHANGED <<store, hist, last, calls, fileRows, answers, entry, limit, pc,
                   taken, queue, stats, global_seen, invoked, dbUsers, runs, snaps,
                   envVars, otherVars, runVars>>

\* future.result() raising with no try around it: the exception leaves
\* process_files_streaming
TakeFailed_Abort(f) ==
    /\ pc = "loop"
    /\ fut[f].state = "failed"
    /\ f \notin taken
    /\ taken' = taken \cup {f}
    /\ pc' = "unwinding"
    /\ UNCHANGED <<store, hist, last, calls, fileRows, answers, entry, limit,
                   fut, queue, stats, global_seen, invoked, dbUsers, runs, snaps,
                   envVars, otherVars, runVars>>

\* future.result() raises, lines 1762-1767
TakeFailed(f) ==
    /\ pc = "loop"
    /\ fut[f].state = "failed"
    /\ f \notin taken
    /\ taken' = taken \cup {f}
    /\ stats' = [stats EXCEPT !.errors = @ + 1]
    /\ UNCHANGED <<store, hist, last, calls, fileRows, answers, entry, limit, pc,
                   fut, queue, global_seen, invoked, dbUsers, runs, snaps,
                   envVars, otherVars, runVars>>

\* os.walk over a directory that does not exist yields nothing (lines
\* 958-967), so files is empty and lines 1734-1737 return the zero stats
RunWithoutFiles ==
    /\ pc \in {"idle", "done", "raised"}
    /\ runs < MaxRuns
    /\ base_dir = "missing"
    /\ pc' = "done"
    /\ stats' = ZeroStats
    /\ invoked' = <<>>
    /\ effects' = ZeroEffects
    /\ attempts' = 0
    /\ done_in_file' = 0
    /\ batch_store' = store
    /\ runs' = runs + 1
    /\ snaps' = Append(snaps, store)
    /\ UNCHANGED <<store, hist, last, calls, fileRows, answers, entry, limit, fut,
                   taken, queue, global_seen, dbUsers, envVars, otherVars>>

Next ==
    \/ StartRun
    \/ \E f \in Files : WorkerStart(f)
    \/ \E f \in Files : WorkerFinish(f)
    \/ \E f \in Files : TakeCompleted(f)
    \/ UpsertBegin
    \/ UpsertEnd
    \/ LoopEnd
    \/ Return

Spec == Init /\ [][Next]_vars

(***************************************************************************)
(* SpecFault: process_files_streaming called with an integer limit and a   *)
(* batch size, over a directory that may be missing, with commits and      *)
(* workers that may raise.                                                 *)
(***************************************************************************)
\* a file that yields nothing, one whose second record (an address alone)
\* matches the row its first record creates, and one with a third record
FaultFileContents ==
    {<<>>,
     <<Row(N1, A1, None, 20000), Row(<<>>, A1, None, 10000)>>,
     <<Row(N2, <<>>, None, None)>>}

InitFault ==
    /\ TableEmpty
    /\ fileRows \in [Files -> FaultFileContents]
    /\ answers = [geocoded |-> {A1}, categorized |-> {N1}]
    /\ entry = "process_files_streaming"
    /\ limit \in 0..MaxLimit
    /\ faults = TRUE
    /\ base_dir \in {"present", "missing"}
    /\ batch_size \in 1..MaxBatch
    /\ PipelineIdle
    /\ OthersOff

NextFault ==
    \/ Next
    \/ \E f \in Files : WorkerRaise(f)
    \/ \E f \in Files : TakeFailed(f)
    \/ RunWithoutFiles

SpecFault == InitFault /\ [][NextFault]_vars

(***************************************************************************)
(* Price statistics, stated from the observations alone.                   *)
(***************************************************************************)
Priced(p) == p # None /\ p > 0

AllPriced(h) == \A k \in 1..Len(h) : Priced(h[k])

NumPriced(h) == Cardinality({k \in 1..Len(h) : Priced(h[k])})

SmallestOf(h) == CHOOSE m \in {h[k] : k \in 1..Len(h)} : \A k \in 1..Len(h) : m <= h[k]

LargestOf(h) == CHOOSE m \in {h[k] : k \in 1..Len(h)} : \A k \in 1..Len(h) : m >= h[k]

\* priceAvg' = floor((priceAvg * oldCount + newPrice) / newCount), from the
\* first observation on
RECURSIVE RunningAvg(_)
RunningAvg(h) ==
    IF Len(h) = 1 THEN h[1]
    ELSE (RunningAvg(SubSeq(h, 1, Len(h) - 1)) * (Len(h) - 1) + h[Len(h)]) \div Len(h)

\* C1: a row created by a priced observation and then matched only by priced
\* observations has, after the n-th of them, priceCount = n, priceMin the
\* smallest and priceMax the largest price seen, and priceAvg the running
\* floor average; 10000 then 20000 give 10000 / 20000 / 15000 / 2.
C1_PriceAggregation ==
    \A i \in Ids(store) :
        AllPriced(hist[i]) =>
            /\ store[i].price_count = Len(hist[i])
            /\ store[i].price_min = SmallestOf(hist[i])
            /\ store[i].price_max = LargestOf(hist[i])
            /\ store[i].price_avg = RunningAvg(hist[i])
            /\ (hist[i] = <<10000, 20000>> =>
                    /\ store[i].price_min = 10000
                    /\ store[i].price_max = 20000
                    /\ store[i].price_avg = 15000
                    /\ store[i].price_count = 2)

C1_Witness ==
    \E i \in Ids(store) : hist[i] = <<10000, 20000, 20000>> /\ store[i].price_avg = 16666

\* C2: every row whose priceMin, priceAvg and priceMax are all set has
\* priceMin <= priceAvg <= priceMax.
C2_PriceOrder ==
    \A i \in Ids(store) :
        (store[i].price_min # None /\ store[i].price_avg # None /\ store[i].price_max # None)
            => (store[i].price_min <= store[i].price_avg
                /\ store[i].price_avg <= store[i].price_max)

\* C3: a row's priceCount is the number of price observations it has
\* received, and a row whose only price observation so far is p has
\* priceMin = priceMax = priceAvg = p and priceCount = 1.
C3_PriceCount ==
    \A i \in Ids(store) :
        /\ store[i].price_count = NumPriced(hist[i])
        /\ \A k \in 1..Len(hist[i]) :
              (Priced(hist[i][k]) /\ NumPriced(hist[i]) = 1) =>
                  /\ store[i].price_min = hist[i][k]
                  /\ store[i].price_max = hist[i][k]
                  /\ store[i].price_avg = hist[i][k]

\* C4: a call changes a stored row's (lat, lng) only when the stored pair is
\* the sentinel (0, 0) or missing and the incoming pair is not the sentinel,
\* and then to the incoming pair; every other row keeps its coordinates.
C4_CoordinateFill ==
    [][\A i \in Ids(store) :
          (store'[i].lat # store[i].lat \/ store'[i].lng # store[i].lng) =>
              /\ ~Truthy(store[i].lat) /\ ~Truthy(store[i].lng)
              /\ (last'.record.lat # 0 \/ last'.record.lng # 0)
              /\ i = last'.existing
              /\ store'[i].lat = last'.record.lat
              /\ store'[i].lng = last'.record.lng]_vars

C4_Witness ==
    /\ last.existing # 0
    /\ last.record.lat # 0
    /\ store[last.existing].lat # 0
    /\ store[last.existing].lat # last.record.lat

Count(seq, k) == Cardinality({i \in 1..Len(seq) : seq[i] = k})

\* the places, file and row, that carry a row with at least one of name and
\* address
Places ==
    {pl \in Files \X (1..4) :
        /\ pl[2] <= Len(fileRows[pl[1]])
        /\ ~(fileRows[pl[1]][pl[2]].name_clean = <<>>
             /\ fileRows[pl[1]][pl[2]].addr_clean = <<>>)}

\* the distinct (name[:64], address[:255]) pairs of the directory
SurvivingKeys == {RowKey(fileRows[pl[1]][pl[2]]) : pl \in Places}

\* C6: a second run over the same files with the same resolver answers
\* leaves the table as the first run left it.
C6_Idempotent == Len(snaps) >= 2 => snaps[2] = snaps[1]

\* C7 as stated: when a run has returned, upsert was invoked exactly once
\* for each distinct (name[:64], address[:255]) pair of the directory.
C7_ExactlyOnce ==
    pc = "done" => \A k \in SurvivingKeys : Count(invoked, k) = 1

\* C7 as amended: within a run upsert is invoked at most once for each
\* distinct (name[:64], address[:255]) pair, and only for such pairs; a run
\* without a record limit (limit 0) that has returned invoked it exactly
\* once for each.
C7_AtMostOnce ==
    /\ \A i \in 1..Len(invoked) : invoked[i] \in SurvivingKeys
    /\ \A k \in SurvivingKeys : Count(invoked, k) <= 1
    /\ (pc = "done" /\ limit = 0) => \A k \in SurvivingKeys : Count(invoked, k) = 1

\* a pair carried by three rows, in one file and across files, upserted once
C7_Witness ==
    /\ pc = "done"
    /\ limit = 0
    /\ \E k \in SurvivingKeys :
          /\ Cardinality({pl \in Places : RowKey(fileRows[pl[1]][pl[2]]) = k}) >= 3
          /\ Count(invoked, k) = 1

\* C8: only the orchestrator is ever inside upsert_restaurant_record, so at
\* most one upsert is in progress; the table changes only when that call
\* returns, and never in a step of a worker.
C8_SerializedUpserts ==
    [][/\ dbUsers' \subseteq {Main}
       /\ store' # store => (pc = "upsert" /\ dbUsers = {Main} /\ fut' = fut)
       /\ fut' # fut => store' = store]_vars

\* an upsert in progress while a worker is parsing
C8_Witness ==
    /\ pc = "upsert"
    /\ dbUsers = {Main}
    /\ \E f \in Files : fut[f].state = "running"

\* C9: with a record limit L > 0 a run never invokes upsert more than L
\* times, and once L invocations are counted the orchestrator is neither at
\* nor inside another one.
C9_LimitRespected ==
    (limit # None /\ limit > 0) =>
        /\ Len(invoked) <= limit
        /\ stats.total_processed <= limit
        /\ Len(invoked) >= limit => pc \notin {"batch", "upsert"}

\* a run stopped at its limit with pairs left over
C9_Witness ==
    /\ pc = "done"
    /\ limit > 0
    /\ Len(invoked) = limit
    /\ Cardinality(SurvivingKeys) > limit

\* C10: a run whose limit is 0 or None does not raise, and when it has
\* returned it has upserted every distinct pair of the directory.
C10_ZeroOrNoneUnlimited ==
    limit \in {0, None} =>
        /\ pc \notin {"unwinding", "raised"}
        /\ pc = "done" => \A k \in SurvivingKeys : Count(invoked, k) = 1

(***************************************************************************)
(* SpecResolver: lookups of one process, in any order, against a service   *)
(* that answers each request as it likes.                                  *)
(***************************************************************************)
Keywords == {A1, A2, N1}

CategoryKeys == {N1, N2} \X {<<>>, A1}

InitResolver ==
    /\ TableEmpty
    /\ PipelineOff
    /\ ChooseOff
    /\ TextOff
    /\ RowsOff
    /\ PlaceOff
    /\ credentials \in [geocode : BOOLEAN, local : BOOLEAN]
    /\ region_hints \in {0, 2}
    /\ geo_cache = <<>>
    /\ cat_cache = <<>>
    /\ lookup = NoLookup
    /\ lookups = 0

\* _geocode_naver_cached(keyword) behind its lru_cache, as line 1064 calls it
GeocodeLookup ==
    /\ lookups < MaxLookups
    /\ \E keyword \in Keywords, services \in [1..NumQueries -> ServicesOf(GeoAnswers)] :
          LET at == CachedAt(geo_cache, keyword)
              r == GeocodeBody(keyword, services)
          IN  IF at # 0
              THEN /\ geo_cache' = LruTouch(geo_cache, at)
                   /\ lookup' = Looked("geocode", TRUE,
                                       [value |-> geo_cache[at].value,
                                        raised |-> FALSE, requests |-> 0],
                                       FALSE, FALSE)
              ELSE /\ geo_cache' = IF r.raised THEN geo_cache
                                   ELSE LruInsert(geo_cache, keyword, r.value,
                                                  GeocodeCacheSize)
                   /\ lookup' = Looked("geocode", FALSE, r,
                                       \A q \in 1..NumQueries : services[q].first # "ok",
                                       credentials.geocode /\ Healable(services))
    /\ lookups' = lookups + 1
    /\ UNCHANGED <<store, hist, last, calls, pipeVars, envVars, runVars,
                   credentials, region_hints, cat_cache, chooseVars, textVars,
                   rowsVars, placeVars>>

\* _get_category_from_naver_local(name, lat, lng, address), lines 204-257
CategoryLookup ==
    /\ lookups < MaxLookups
    /\ \E k \in CategoryKeys, service \in ServicesOf(LocalAnswers) :
          LET cache_key == <<Strip(k[1]), Strip(k[2])>>
              r == LocalBody(cache_key[1], cache_key[2], service)
          IN  IF cache_key \in DOMAIN cat_cache
              THEN /\ cat_cache' = cat_cache
                   /\ lookup' = Looked("category", TRUE,
                                       [value |-> cat_cache[cache_key],
                                        raised |-> FALSE, requests |-> 0],
                                       FALSE, FALSE)
              ELSE /\ cat_cache' = DictPut(cat_cache, cache_key, r.value)
                   /\ lookup' = Looked("category", FALSE, r,
                                       service.first # "ok",
                                       credentials.local /\ Healable(<<service>>))
    /\ lookups' = lookups + 1
    /\ UNCHANGED <<store, hist, last, calls, pipeVars, envVars, runVars,
                   credentials, region_hints, geo_cache, chooseVars, textVars,
                   rowsVars, placeVars>>

NextResolver == GeocodeLookup \/ CategoryLookup

SpecResolver == InitResolver /\ [][NextResolver]_vars

(***************************************************************************)
(* _choose_best_local_place, lines 144-201.  An item carries mapx, mapy    *)
(* (NoText when absent, "x" when not a number), its title, and metres: the *)
(* haversine distance of its coordinates from the supplied (lat, lng).     *)
(***************************************************************************)
\* str.lower, character by character
LowerChar(c) == IF c = "A" THEN "a" ELSE IF c = "B" THEN "b" ELSE c

Lower(t) == [i \in 1..Len(t) |-> LowerChar(t[i])]

\* the text after the first ">" of t (t holds one)
RECURSIVE AfterTag(_)
AfterTag(t) == IF Head(t) = ">" THEN Tail(t) ELSE AfterTag(Tail(t))

\* _strip_html_tags, lines 264-268: re.sub(r"<[^>]*>", "", text)
RECURSIVE StripTags(_)
StripTags(t) ==
    IF t = <<>> THEN <<>>
    ELSE IF Head(t) = "<" /\ \E i \in 1..Len(t) : t[i] = ">"
    THEN StripTags(AfterTag(t))
    ELSE <<Head(t)>> \o StripTags(Tail(t))

\* a in b, for strings
IsInfix(a, b) ==
    \E i \in 1..(Len(b) + 1) :
       i + Len(a) - 1 <= Len(b) /\ SubSeq(b, i, i + Len(a) - 1) = a

\* float(mapx), float(mapy) succeed, lines 160-169
Usable(it) ==
    /\ it.mapx # NoText /\ it.mapy # NoText
    /\ it.mapx # "x" /\ it.mapy # "x"

\* lines 172-178: the distance the item is given, None when it is dropped
DistOf(it, pl) ==
    IF pl.lat = 0 /\ pl.lng = 0 THEN 0
    ELSE IF Truthy(pl.max_distance) /\ it.metres > pl.max_distance THEN None
    ELSE it.metres

\* lines 180-187
NameScore(it, pl) ==
    LET target_name == Lower(pl.res_name)
        lower_title == Lower(StripTags(it.title))
    IN  IF target_name # <<>> /\ IsInfix(target_name, lower_title) THEN 2
        ELSE IF target_name # <<>> /\ IsInfix(lower_title, target_name) THEN 1
        ELSE 0

\* a comparison that puts the distance before the name score
Better_NearestFirst(name_score, dist, prev_score, prev_dist) ==
    dist < prev_dist \/ (dist = prev_dist /\ name_score > prev_score)

\* line 196
Better(name_score, dist, prev_score, prev_dist) ==
    name_score > prev_score \/ (name_score = prev_score /\ dist < prev_dist)

NoBest == [item |-> 0, dist |-> 0, name_score |-> 0]

\* the loop of lines 159-197 from item i on
RECURSIVE ChooseFrom(_, _, _, _)
ChooseFrom(its, i, pl, prev) ==
    IF i > Len(its) THEN prev.item
    ELSE IF ~Usable(its[i]) \/ DistOf(its[i], pl) = None
    THEN ChooseFrom(its, i + 1, pl, prev)
    ELSE LET this == [item |-> i, dist |-> DistOf(its[i], pl),
                      name_score |-> NameScore(its[i], pl)]
         IN  IF prev.item = 0 THEN ChooseFrom(its, i + 1, pl, this)
             ELSE IF Better(this.name_score, this.dist, prev.name_score, prev.dist)
             THEN ChooseFrom(its, i + 1, pl, this)
             ELSE ChooseFrom(its, i + 1, pl, prev)

\* the position in items of the item returned, 0 for None
_choose_best_local_place(its, pl) == ChooseFrom(its, 1, pl, NoBest)

Titles == {<<"<", "b", ">", "A", "b", "c">>, <<"a">>, <<"z">>}

ItemKinds ==
    [mapx : {NoText, "x", "127"}, mapy : {"37"}, title : Titles,
     metres : {100, 400, 600}]

ItemLists == UNION {[1..n -> ItemKinds] : n \in 0..MaxItems}

\* the calls the code makes: radius 300 (line 1079) and 500 (line 1408)
ChooseArgs ==
    [lat : {0, 37}, lng : {0, 127}, res_name : {<<>>, <<"a", "b">>, <<"A", "B">>},
     max_distance : {300, 500}]

InitChoose ==
    /\ TableEmpty
    /\ PipelineOff
    /\ ResolverOff
    /\ TextOff
    /\ RowsOff
    /\ PlaceOff
    /\ items \in ItemLists
    /\ place \in ChooseArgs
    /\ best = -1

Choose ==
    /\ best = -1
    /\ best' = _choose_best_local_place(items, place)
    /\ UNCHANGED <<store, hist, last, calls, pipeVars, envVars, runVars,
                   resolverVars, textVars, rowsVars, placeVars, items, place>>

NextChoose == Choose

SpecChoose == InitChoose /\ [][NextChoose]_vars

(***************************************************************************)
(* _clean_text, lines 398-403.  A text is a sequence of characters, each   *)
(* named by a string: "jang", "so", "myeong" are the syllables of the      *)
(* vocabulary word, "myeo" and "ng" the syllable and the trailing jamo     *)
(* that NFKC composes into "myeong", "zwsp" the zero-width space, "fwsp"   *)
(* the full-width space, "fwbr" the bracket U+3010, "tab" the tabulator,   *)
(* " " and "[" themselves.                                                 *)
(***************************************************************************)
VocabWord == <<"jang", "so", "myeong">>

VocabShort == <<"jang", "so">>

\* s.replace(VocabWord, VocabShort), line 401: left to right, no overlap
RECURSIVE ReplaceWord(_)
ReplaceWord(t) ==
    IF Len(t) < Len(VocabWord) THEN t
    ELSE IF SubSeq(t, 1, Len(VocabWord)) = VocabWord
    THEN VocabShort \o ReplaceWord(SubSeq(t, Len(VocabWord) + 1, Len(t)))
    ELSE <<Head(t)>> \o ReplaceWord(Tail(t))

\* the compatibility mapping of one character
Compat(c) == IF c = "fwsp" THEN " " ELSE c

\* canonical composition of adjacent characters
RECURSIVE Compose(_)
Compose(t) ==
    IF Len(t) < 2 THEN t
    ELSE IF t[1] = "myeo" /\ t[2] = "ng"
    THEN <<"myeong">> \o Compose(SubSeq(t, 3, Len(t)))
    ELSE <<Head(t)>> \o Compose(Tail(t))

\* unicodedata.normalize('NFKC', s), lines 383-385
_to_halfwidth(t) == Compose([i \in 1..Len(t) |-> Compat(t[i])])

\* ch.isprintable() and not unicodedata.category(ch).startswith("C")
Kept(c) == c \notin {"zwsp", "tab"}

RECURSIVE Filter(_)
Filter(t) ==
    IF t = <<>> THEN <<>>
    ELSE IF Kept(Head(t)) THEN <<Head(t)>> \o Filter(Tail(t))
    ELSE Filter(Tail(t))

\* lines 387-394
_strip_weird_unicode(t) ==
    LET kept == Filter(t)
    IN  [i \in 1..Len(kept) |-> IF kept[i] = "fwbr" THEN "[" ELSE kept[i]]

\* re.sub(r"\s+", " ", s)
RECURSIVE Collapse(_)
Collapse(t) ==
    IF Len(t) < 2 THEN t
    ELSE IF t[1] = " " /\ t[2] = " " THEN Collapse(Tail(t))
    ELSE <<Head(t)>> \o Collapse(Tail(t))

\* lines 375-381
_normalize_spaces(t) ==
    Strip(Collapse([i \in 1..Len(t) |-> IF t[i] = "fwsp" THEN " " ELSE t[i]]))

\* lines 398-403
_clean_text(t) ==
    _normalize_spaces(_strip_weird_unicode(_to_halfwidth(ReplaceWord(t))))

TextChars == {"jang", "so", "myeong", "myeo", "ng", "zwsp", "fwsp", "fwbr", " "}

Texts == UNION {[1..n -> TextChars] : n \in 0..MaxLen}

InitText ==
    /\ TableEmpty
    /\ PipelineOff
    /\ ResolverOff
    /\ ChooseOff
    /\ RowsOff
    /\ PlaceOff
    /\ raw \in Texts
    /\ cleaned = <<>>

\* _clean_text applied to the text, then to what it returned
Clean ==
    /\ Len(cleaned) < 2
    /\ cleaned' = Append(cleaned,
                         _clean_text(IF cleaned = <<>> THEN raw
                                     ELSE cleaned[Len(cleaned)]))
    /\ UNCHANGED <<store, hist, last, calls, pipeVars, envVars, runVars,
                   resolverVars, chooseVars, rowsVars, placeVars, raw>>

NextText == Clean

SpecText == InitText /\ [][NextText]_vars

(***************************************************************************)
(* Address confidence, the Place Splitter and the Name Qualifier           *)
(* (_score_address, _split_place_and_address, _clean_res_name), over texts *)
(* of these characters: the syllables "mat", "jip", "gwan", "ak", "ro"     *)
(* (the road suffix), "gu" (the district suffix), "jeom" (the branch       *)
(* suffix), the digits "1" and "2", and " ", "tab", "[", "]", "(", ")",    *)
(* "/".  A pattern or keyword of the source that needs any other character *)
(* matches none of these texts and is left out.                            *)
(***************************************************************************)
Hangul == {"mat", "jip", "gwan", "ak", "ro", "gu", "jeom"}

Digits == {"1", "2"}

Has(t, c) == \E i \in 1..Len(t) : t[i] = c

\* the index of the first c in t, 0 when there is none
FirstOf(t, c) ==
    IF Has(t, c) THEN CHOOSE i \in 1..Len(t) : t[i] = c /\ \A j \in 1..(i - 1) : t[j] # c
    ELSE 0

\* \s*\d matches t at position i
RECURSIVE DigitAfterSpaces(_, _)
DigitAfterSpaces(t, i) ==
    IF i > Len(t) THEN FALSE
    ELSE IF t[i] = " " THEN DigitAfterSpaces(t, i + 1)
    ELSE t[i] \in Digits

\* line 531: a road suffix followed by a number
RoadNumber(t) == \E i \in 1..Len(t) : t[i] = "ro" /\ DigitAfterSpaces(t, i + 1)

\* _ADDR_CORE_RE, lines 512-519: its first alternative, a road name of at
\* least one character before the suffix and the number
AddrCore(t) ==
    \E i \in 2..Len(t) :
       /\ t[i] = "ro"
       /\ t[i - 1] \in Hangul \cup Digits
       /\ DigitAfterSpaces(t, i + 1)

\* _score_address, lines 521-544
_score_address(t) ==
    IF t = <<>> THEN 0
    ELSE LET s == _clean_text(t)
         IN  (IF AddrCore(s) THEN 4 ELSE 0)
             + (IF RoadNumber(s) THEN 3 ELSE 0)
             + (IF Has(s, "gu") THEN 2 ELSE 0)
             + (IF \E i \in 1..Len(s) : s[i] \in Digits THEN 1 ELSE 0)
             - (IF Has(s, "jeom") THEN 2 ELSE 0)

\* lines 546-548
_is_confident_address(t) == _score_address(t) >= CONFIDENT

\* n.split(c)[0].strip()
Before(n, c) == Strip(SubSeq(n, 1, FirstOf(n, c) - 1))

\* the bracket rules of _clean_res_name, lines 470-477
Unbalanced(n, open, close) ==
    IF Has(n, open) /\ ~Has(n, close) THEN Before(n, open) ELSE n

\* _clean_res_name, lines 452-505
_clean_res_name(name) ==
    IF name = <<>> THEN <<>>
    ELSE LET n0 == _clean_text(name)
             n1 == Unbalanced(n0, "(", ")")
             n2 == Unbalanced(n1, "[", "]")
             n3 == Unbalanced(n2, ")", "(")
             n4 == Unbalanced(n3, "]", "[")
             n == _normalize_spaces(n4)
         IN  IF \E i \in 1..Len(n) : n[i] \in Hangul THEN n ELSE <<>>

\* sep in t, and where it first is (0: nowhere)
FirstAt(t, sep) ==
    LET at == {i \in 1..Len(t) :
                  i + Len(sep) - 1 <= Len(t) /\ SubSeq(t, i, i + Len(sep) - 1) = sep}
    IN  IF at = {} THEN 0 ELSE CHOOSE i \in at : \A j \in at : i <= j

\* t.split(sep)
RECURSIVE SplitOn(_, _)
SplitOn(t, sep) ==
    IF FirstAt(t, sep) = 0 THEN <<t>>
    ELSE <<SubSeq(t, 1, FirstAt(t, sep) - 1)>>
         \o SplitOn(SubSeq(t, FirstAt(t, sep) + Len(sep), Len(t)), sep)

\* [x.strip() for x in t.split(sep) if x.strip()]
StrippedParts(t, sep) ==
    LET Present(x) == Strip(x) # <<>>
        kept == SelectSeq(SplitOn(t, sep), Present)
    IN  [i \in 1..Len(kept) |-> Strip(kept[i])]

Undecided == [hit |-> FALSE, name |-> <<>>, addr |-> <<>>]

Decided(name, addr) == [hit |-> TRUE, name |-> name, addr |-> addr]

\* re.match(r"^\[([^\]]+)\](.+)$", p) and its groups, for either bracket
Leading(p, open, close) ==
    LET k == FirstOf(p, close)
    IN  IF p # <<>> /\ p[1] = open /\ k >= 3 /\ k < Len(p)
        THEN [hit |-> TRUE, inner |-> SubSeq(p, 2, k - 1),
              rest |-> SubSeq(p, k + 1, Len(p))]
        ELSE [hit |-> FALSE, inner |-> <<>>, rest |-> <<>>]

\* lines 559-573: [name]address and (name)address
LeadingBracket(p, open, close) ==
    LET m == Leading(p, open, close)
        name_part == _clean_text(m.inner)
        addr_part == _clean_text(m.rest)
    IN  IF m.hit /\ _is_confident_address(addr_part)
        THEN Decided(_clean_res_name(name_part), addr_part)
        ELSE Undecided

\* the disambiguation of lines 579-582, 590-593, 599-602: a first, b second
Disambiguate(a, b) ==
    IF _is_confident_address(a) /\ ~_is_confident_address(b)
    THEN Decided(_clean_res_name(b), a)
    ELSE IF _is_confident_address(b) /\ ~_is_confident_address(a)
    THEN Decided(_clean_res_name(a), b)
    ELSE Undecided

\* lines 576-582: re.match(r"^(.*?)[\s]*\((.+?)\)$", p)
TrailingParen(p) ==
    LET k == FirstOf(p, "(")
    IN  IF k # 0 /\ k <= Len(p) - 2 /\ p[Len(p)] = ")"
        THEN Disambiguate(_clean_text(SubSeq(p, k + 1, Len(p) - 1)),
                          _clean_text(SubSeq(p, 1, k - 1)))
        ELSE Undecided

\* one turn of the loop of lines 585-593
TwoParts(p, sep) ==
    IF FirstAt(p, sep) # 0 /\ Len(StrippedParts(p, sep)) = 2
    THEN Disambiguate(StrippedParts(p, sep)[1], StrippedParts(p, sep)[2])
    ELSE Undecided

\* lines 585-593: tab, then double space
TabOrDoubleSpace(p) ==
    IF TwoParts(p, <<"tab">>).hit THEN TwoParts(p, <<"tab">>)
    ELSE TwoParts(p, <<" ", " ">>)

\* lines 596-602, for the separator " / ": p.split(sep, 1)
Separated(p) ==
    LET sep == <<" ", "/", " ">>
        k == FirstAt(p, sep)
    IN  IF k # 0
        THEN Disambiguate(Strip(SubSeq(p, 1, k - 1)),
                          Strip(SubSeq(p, k + Len(sep), Len(p))))
        ELSE Undecided

\* lines 604-609
Whole(p) ==
    IF _is_confident_address(p) THEN Decided(<<>>, p)
    ELSE Decided(_clean_res_name(p), <<>>)

\* the strategies after the [name]address one, lines 567-609
AfterBracket(p) ==
    IF LeadingBracket(p, "(", ")").hit THEN LeadingBracket(p, "(", ")")
    ELSE IF TrailingParen(p).hit THEN TrailingParen(p)
    ELSE IF TabOrDoubleSpace(p).hit THEN TabOrDoubleSpace(p)
    ELSE IF Separated(p).hit THEN Separated(p)
    ELSE Whole(p)

\* _split_place_and_address, lines 550-609
_split_place_and_address(place_raw) ==
    LET p == _clean_text(place_raw)
    IN  IF p = <<>> THEN Decided(<<>>, <<>>)
        ELSE IF LeadingBracket(p, "[", "]").hit THEN LeadingBracket(p, "[", "]")
        ELSE AfterBracket(p)

\* lines 1001-1029 of process_extracted_rows: the row as it reaches line
\* 1032; a row the loop passes over before is a row with neither name nor
\* address, which line 1032 passes over
SplitRow(place_raw, people, amount) ==
    LET raw_ == _clean_text(place_raw)
        split == _split_place_and_address(raw_)
        cleaned_name == _clean_res_name(split.name)
        name_clean == IF Len(cleaned_name) < 2 THEN <<>> ELSE cleaned_name
        addr_clean == IF _is_confident_address(_clean_text(split.addr))
                      THEN _clean_text(split.addr) ELSE <<>>
    IN  IF Len(raw_) < 2 THEN Row(<<>>, <<>>, people, amount)
        ELSE IF split.name # <<>> /\ name_clean = <<>>
        THEN Row(<<>>, <<>>, people, amount)
        ELSE Row(name_clean, addr_clean, people, amount)

\* lines 743-765 of _extract_rows_from_table: the place_raw of a table row
\* (empty: no row is appended); a column the table lacks is an empty cell.
\* The place column of line 761 is the name column (every header of
\* PLACE_HEADERS contains one of NAME_HEADERS and conversely, lines 663-669),
\* so the cell read at line 762 is name_val again.
PlaceRawOf(row) ==
    LET name_val == _clean_text(row.name)
        addr_val == _clean_text(row.addr)
    IN  IF name_val # <<>> /\ addr_val # <<>>
        THEN name_val \o <<" ", "(">> \o addr_val \o <<")">>
        ELSE IF name_val # <<>> THEN name_val
        ELSE IF addr_val # <<>> THEN addr_val
        ELSE name_val

(***************************************************************************)
(* SpecPlace: a place text handed to _split_place_and_address, or a table  *)
(* row taken through _extract_rows_from_table and process_extracted_rows.  *)
(***************************************************************************)
Eatery == <<"mat", "jip">>
OneLetter == <<"mat">>
Road1 == <<"gwan", "ak", "ro", " ", "1">>
Road2 == <<"gwan", "ak", "ro", " ", "2">>
District == <<"gwan", "ak", "gu">>
RoadBranch == <<"gwan", "ak", "ro", " ", "1", "jeom">>

Sides == {Eatery, Road1, Road2, District, RoadBranch}

PlaceTexts ==
    Sides
    \cup {<<"[">> \o a \o <<"]">> \o b : a \in Sides, b \in Sides}
    \cup {<<"(">> \o a \o <<")">> \o b : a \in Sides, b \in Sides}
    \cup {a \o <<" ", "(">> \o b \o <<")">> : a \in Sides, b \in Sides}
    \cup {a \o <<"tab">> \o b : a \in Sides, b \in Sides}
    \cup {a \o <<" ", " ">> \o b : a \in Sides, b \in Sides}
    \cup {a \o <<" ", "/", " ">> \o b : a \in Sides, b \in Sides}

\* a name column (which is the place column too) and an address column
TableRows ==
    [name : Sides \cup {<<>>, OneLetter, <<"[">> \o Eatery \o <<"]">> \o Road1,
                        Eatery \o <<"tab">> \o Road1},
     addr : Sides \cup {<<>>}]

InitPlace ==
    /\ TableEmpty
    /\ PipelineOff
    /\ ResolverOff
    /\ ChooseOff
    /\ TextOff
    /\ RowsOff
    /\ \/ text \in PlaceTexts /\ cells = NoCells
       \/ text = <<>> /\ cells \in TableRows
    /\ extracted = NotExtracted
    /\ parts = NotSplit
    /\ place_out = NotEmitted

\* _split_place_and_address(text)
Split ==
    /\ text # <<>>
    /\ ~parts.done
    /\ parts' = [done |-> TRUE, name |-> _split_place_and_address(text).name,
                 addr |-> _split_place_and_address(text).addr]
    /\ UNCHANGED <<store, hist, last, calls, pipeVars, envVars, runVars,
                   resolverVars, chooseVars, textVars, rowsVars, cells, text,
                   extracted, place_out>>

\* _extract_rows_from_table reaches the row, lines 741-765
ExtractRow ==
    /\ text = <<>>
    /\ ~extracted.done
    /\ extracted' = [done |-> TRUE, place_raw |-> PlaceRawOf(cells)]
    /\ UNCHANGED <<store, hist, last, calls, pipeVars, envVars, runVars,
                   resolverVars, chooseVars, textVars, rowsVars, cells, text,
                   parts, place_out>>

\* process_extracted_rows on the rows extracted, lines 991-1106
ProcessPlace ==
    /\ extracted.done
    /\ ~place_out.done
    /\ place_out' =
          [done |-> TRUE,
           records |-> IF extracted.place_raw = <<>> THEN <<>>
                       ELSE process_extracted_rows(
                               <<SplitRow(extracted.place_raw, None, None)>>, None)]
    /\ UNCHANGED <<store, hist, last, calls, pipeVars, envVars, runVars,
                   resolverVars, chooseVars, textVars, rowsVars, cells, text,
                   extracted, parts>>

NextPlace == Split \/ ExtractRow \/ ProcessPlace

SpecPlace == InitPlace /\ [][NextPlace]_vars

(***************************************************************************)
(* SpecRows: process_extracted_rows called once on the rows of a file,     *)
(* with the limit the worker passes (None) or a limit of one record.       *)
(***************************************************************************)
LongAddr == Rep("r", ADDR_CAP) \o <<"1">>

\* person count and amount as _to_int parsed them
PeopleAmounts ==
    {<<None, None>>, <<5, 250000>>, <<0, 300000>>, <<None, 300000>>,
     <<1, 1000001>>, <<2, 2000001>>, <<3, 100>>, <<7, 0>>, <<1000, 5000>>,
     <<1001, 300000>>, <<2000, 4000000>>}

RowInputs ==
    {Row(n, a, None, 20000) : n \in {<<>>, N1, LongA, LongB}, a \in {<<>>, A1, LongAddr}}
    \cup {Row(N1, A1, pa[1], pa[2]) : pa \in PeopleAmounts}

RowLists == UNION {[1..n -> RowInputs] : n \in 0..MaxRows}

InitRows ==
    /\ TableEmpty
    /\ PipelineOff
    /\ ResolverOff
    /\ ChooseOff
    /\ TextOff
    /\ PlaceOff
    /\ rows_in \in RowLists
    /\ row_limit \in {None, 1}
    /\ emitted = NotEmitted

\* process_extracted_rows(rows, limit), lines 991-1106
ProcessExtracted ==
    /\ ~emitted.done
    /\ emitted' = [done |-> TRUE,
                   records |-> process_extracted_rows(rows_in, row_limit)]
    /\ UNCHANGED <<store, hist, last, calls, pipeVars, envVars, runVars,
                   resolverVars, chooseVars, textVars, placeVars, rows_in,
                   row_limit>>

NextRows == ProcessExtracted

SpecRows == InitRows /\ [][NextRows]_vars

(***************************************************************************)
(* Commits, retries and tallies of a run (SpecFault).                      *)
(***************************************************************************)
\* the step is the return of an upsert call
UpsertReturns == pc = "upsert" /\ calls' = calls + 1

\* C11: the orchestrator commits every batch_size processed records: a commit
\* happens only when batch_size records of the current batch have been
\* processed, or at the end of the final, partial batch (the file's records
\* are exhausted or the limit is reached).
C11_CommitEveryN ==
    [][(UpsertReturns /\ effects'.commits > effects.commits)
        => \/ done_in_file' % batch_size = 0
           \/ queue' = <<>>
           \/ LimitReached(limit, stats'.total_processed)]_vars

\* C12: when a commit fails the current batch is rolled back and retried at
\* most DB_RETRY_COUNT times; when every attempt fails the failure is counted
\* as an error, the table is as it was when the batch began, and the run goes
\* on without raising.
C12_BatchRolledBack ==
    [][UpsertReturns
        => /\ attempts' <= DB_RETRY_COUNT
           /\ last'.error = "commit failed"
                => /\ attempts' = DB_RETRY_COUNT
                   /\ stats'.errors = stats.errors + 1
                   /\ pc' \in {"batch", "loop", "shutdown"}
                   /\ store' = batch_store]_vars

\* the files whose worker raised, and those the orchestrator has seen raise
FailedFiles == {f \in Files : fut[f].state = "failed"}

FailedSeen == FailedFiles \cap taken

TalliesWith(failed) ==
    /\ stats.total_processed = Len(invoked)
    /\ stats.created = effects.inserted
    /\ stats.updated = effects.changed
    /\ stats.created + stats.updated + stats.skipped + stats.errors
          = stats.total_processed + Cardinality(failed)

\* C13 as stated: the returned statistics count every upsert invocation once,
\* created and updated are the rows inserted and the upserts that changed a
\* row, and the four counters add up to total_processed plus the number of
\* files whose worker failed.
C13_TrueTallies == pc = "done" => TalliesWith(FailedFiles)

\* C13 amended: the same, the files counted being those whose failure the
\* orchestrator observed; it holds after every step of a run.
C13_TalliesOfObserved == TalliesWith(FailedSeen)

C13_Witness ==
    /\ pc = "done"
    /\ stats.created = 1 /\ stats.errors = 2 /\ stats.total_processed = 2
    /\ FailedSeen # {}

\* the keys of the records a worker returned
KeysOf(records) == {RecordKey(records[k]) : k \in 1..Len(records)}

\* C14: no single bad input is fatal: a run never raises; over a missing
\* directory it returns zero counters and leaves the table alone; a file whose
\* worker raised or returned nothing is skipped, every file is still parsed
\* and, in a run without limit, every record of the other files is upserted.
C14_NothingFatal ==
    /\ pc \notin {"raised", "unwinding"}
    /\ (pc = "done" /\ base_dir = "missing")
          => stats = ZeroStats /\ store = <<>> /\ calls = 0
    /\ (pc = "done" /\ base_dir = "present")
          => /\ \A f \in Files : fut[f].state \in {"finished", "failed"}
             /\ limit = 0 =>
                  \A f \in Files :
                     fut[f].state = "finished" =>
                        \A k \in KeysOf(fut[f].result) : Count(invoked, k) = 1

C14_Witness ==
    /\ pc = "done" /\ base_dir = "present" /\ limit = 0
    /\ \E f, g \in Files :
          /\ fut[f].state = "failed"
          /\ fut[g].state = "finished" /\ fut[g].result # <<>>
          /\ KeysOf(fut[g].result) = {invoked[k] : k \in 1..Len(invoked)}

(***************************************************************************)
(* The resolvers (SpecResolver).                                           *)
(***************************************************************************)
\* C15: the geocode resolver never raises; without credentials, or when the
\* request of every candidate query fails or yields nothing usable, it
\* returns the unresolved triple, and the row is still emitted, with the
\* sentinel coordinates.
C15_GeocodeDegrades ==
    lookup.kind = "geocode" =>
       /\ ~lookup.raised
       /\ (~lookup.hit /\ (~credentials.geocode \/ lookup.all_failed))
             => lookup.geo = Unresolved
       /\ lookup.geo = Unresolved => lookup.coords = <<0, 0>>

C15_Witness ==
    /\ lookup.kind = "geocode" /\ ~lookup.hit /\ credentials.geocode
    /\ lookup.all_failed /\ lookup.requests = 2
    /\ lookup.geo = Unresolved /\ lookup.coords = <<0, 0>>

\* C16: a geocode or local-search request that fails in passing is tried
\* again: when a second request of the failed query would succeed, the
\* lookup returns a resolved result.
C16_RetriedBeforeDegrading ==
    (lookup.kind \in {"geocode", "category"} /\ lookup.healable)
       => IF lookup.kind = "geocode" THEN lookup.geo # Unresolved
          ELSE lookup.category # NoText

\* C17: neither cache ever holds more entries than the configured capacity,
\* and a lookup whose key is cached sends no request.
C17_CachesBounded ==
    /\ Len(geo_cache) <= GeocodeCacheSize
    /\ Cardinality(DOMAIN cat_cache) <= GeocodeCacheSize
    /\ lookup.hit => lookup.requests = 0

(***************************************************************************)
(* The choice among local-search candidates (SpecChoose).                  *)
(***************************************************************************)
\* the name-match score as the claim words it, on lower-cased text with the
\* title's tags stripped
ContainmentScore(it) ==
    LET name == Lower(place.res_name)
        title == Lower(StripTags(it.title))
    IN  IF IsInfix(name, title) THEN 2 ELSE IF IsInfix(title, name) THEN 1 ELSE 0

SentinelPlace == place.lat = 0 /\ place.lng = 0

\* the candidates with usable coordinates and, unless the supplied pair is
\* the sentinel, within the radius
Survivors ==
    {i \in 1..Len(items) :
        Usable(items[i]) /\ (SentinelPlace \/ items[i].metres <= place.max_distance)}

\* the distance candidates are compared by: none is computed for the sentinel
ComparedDistance(i) == IF SentinelPlace THEN 0 ELSE items[i].metres

\* C18: _choose_best_local_place returns none if no candidate survives, and
\* otherwise a survivor with the highest name-match score and, among the
\* survivors with that score, the smallest distance.
C18_BestCandidate ==
    best # -1 =>
       IF Survivors = {} THEN best = 0
       ELSE /\ best \in Survivors
            /\ \A j \in Survivors :
                  /\ ContainmentScore(items[j]) <= ContainmentScore(items[best])
                  /\ ContainmentScore(items[j]) = ContainmentScore(items[best])
                        => ComparedDistance(best) <= ComparedDistance(j)

C18_Witness ==
    /\ best = 2 /\ Len(items) = 2 /\ ~SentinelPlace
    /\ Survivors = {1, 2}
    /\ ContainmentScore(items[2]) = 2 /\ ContainmentScore(items[1]) = 1
    /\ items[2].metres > items[1].metres

(***************************************************************************)
(* What an upsert leaves alone (SpecUpsert).                               *)
(***************************************************************************)
\* C19: an upsert that matches an existing record deletes no record, keeps
\* the record's id (its position), name, address and score, changes category
\* and phone only from empty to the incoming value, and leaves every other
\* record as it was.
C19_FillOnly ==
    [][last'.existing # 0 =>
        /\ Len(store') = Len(store)
        /\ \A i \in Ids(store) :
              /\ store'[i].res_name = store[i].res_name
              /\ store'[i].address = store[i].address
              /\ store'[i].score = store[i].score
              /\ store'[i].category # store[i].category
                    => /\ store[i].category = NoText
                       /\ store'[i].category = last'.record.category
              /\ store'[i].res_phone # store[i].res_phone
                    => /\ store[i].res_phone = NoText
                       /\ store'[i].res_phone = last'.record.res_phone
              /\ i # last'.existing => store'[i] = store[i]]_vars

C19_Witness ==
    /\ last.existing # 0
    /\ Len(store) = 2
    /\ last.record.category = "cafe"
    /\ store[last.existing].category = "korean"

(***************************************************************************)
(* The text normalizer (SpecText).                                         *)
(***************************************************************************)
\* C20: _clean_text is idempotent: applied to its own result it returns that
\* result.
C20_CleanIdempotent == Len(cleaned) = 2 => cleaned[2] = cleaned[1]
(***************************************************************************)
(* The records process_extracted_rows emits (SpecRows).                    *)
(***************************************************************************)
Emitted(k) == emitted.records[k]

Discarded(row) == row.name_clean = <<>> /\ row.addr_clean = <<>>

\* the row a record was made from: the first row with the record's pair
SourceRow(k) ==
    rows_in[CHOOSE i \in 1..Len(rows_in) :
               /\ ~Discarded(rows_in[i])
               /\ Slice(rows_in[i].name_clean, NAME_CAP) = Emitted(k).res_name
               /\ Slice(rows_in[i].addr_clean, ADDR_CAP) = Emitted(k).address
               /\ \A j \in 1..(i - 1) :
                     \/ Slice(rows_in[j].name_clean, NAME_CAP) # Emitted(k).res_name
                     \/ Slice(rows_in[j].addr_clean, ADDR_CAP) # Emitted(k).address]

Accompanied(row) == row.people # None /\ row.people > 0

\* C21: for every row with a positive amount that yields a record, the price
\* is floor(amount / personCount) when a person count > 0 accompanies the
\* amount and the raw amount otherwise (5 and 250000 give 50000; 0 or no
\* count and 300000 give 300000), and a price above 1,000,000 is discarded.
C21_PricePerPerson ==
    emitted.done =>
       \A k \in 1..Len(emitted.records) :
          LET row == SourceRow(k)
              derived == IF Accompanied(row) THEN row.amount \div row.people
                         ELSE row.amount
          IN  (row.amount # None /\ row.amount > 0) =>
                 /\ Emitted(k).price = IF derived > 1000000 THEN None ELSE derived
                 /\ (row.people = 5 /\ row.amount = 250000) => Emitted(k).price = 50000
                 /\ (row.people \in {0, None} /\ row.amount = 300000)
                       => Emitted(k).price = 300000

\* a price divided by the person count
C21_Witness ==
    /\ emitted.done
    /\ Len(emitted.records) = 1
    /\ SourceRow(1).people = 5 /\ SourceRow(1).amount = 250000
    /\ Emitted(1).price = 50000

\* C22: every emitted record has a name of at most 64 and an address of at
\* most 255 characters, not both empty; it carries the truncated pair of one
\* of the rows; no two emitted records have the same truncated pair; and
\* without a limit every row that has a name or an address is represented.
C22_CapsBeforeDedup ==
    emitted.done =>
       /\ \A k \in 1..Len(emitted.records) :
             /\ Len(Emitted(k).res_name) <= 64
             /\ Len(Emitted(k).address) <= 255
             /\ Emitted(k).res_name # <<>> \/ Emitted(k).address # <<>>
             /\ \E i \in 1..Len(rows_in) :
                   /\ Emitted(k).res_name = Slice(rows_in[i].name_clean, 64)
                   /\ Emitted(k).address = Slice(rows_in[i].addr_clean, 255)
             /\ \A j \in 1..(k - 1) : RecordKey(Emitted(j)) # RecordKey(Emitted(k))
       /\ row_limit = None =>
             \A i \in 1..Len(rows_in) :
                IF Discarded(rows_in[i])
                THEN \A k \in 1..Len(emitted.records) :
                        Emitted(k).res_name # <<>> \/ Emitted(k).address # <<>>
                ELSE \E k \in 1..Len(emitted.records) :
                        /\ Emitted(k).res_name = Slice(rows_in[i].name_clean, 64)
                        /\ Emitted(k).address = Slice(rows_in[i].addr_clean, 255)

\* two rows whose names differ only after the 64th character, and an
\* address of 256 characters: one record
C22_Witness ==
    /\ emitted.done
    /\ row_limit = None
    /\ Len(rows_in) = 2
    /\ rows_in[1].name_clean = LongA /\ rows_in[2].name_clean = LongB
    /\ rows_in[1].addr_clean = LongAddr /\ rows_in[2].addr_clean = LongAddr
    /\ Len(emitted.records) = 1
    /\ Len(Emitted(1).res_name) = 64 /\ Len(Emitted(1).address) = 255

\* C25: a person count above 1000 is treated as absent for the whole row:
\* the record has no person count and its price is the raw amount (none
\* when that is above the ceiling), never the amount divided by the count.
C25_ImplausibleCountAbsent ==
    emitted.done =>
       \A k \in 1..Len(emitted.records) :
          LET row == SourceRow(k)
          IN  (row.people # None /\ row.people > 1000) =>
                 /\ Emitted(k).people_count = None
                 /\ Emitted(k).price =
                       IF row.amount # None /\ row.amount > 0 /\ row.amount <= 1000000
                       THEN row.amount ELSE None
(***************************************************************************)
(* The Place Splitter and the table bridge (SpecPlace).                    *)
(***************************************************************************)
\* the text as [inner]rest, when it has that form
BracketForm == Leading(_clean_text(text), "[", "]")

SplitResult == <<parts.name, parts.addr>>

\* C23: for a text [inner]rest the bracket strategy decides exactly when one
\* side is a confident address and the other is not, in either direction:
\* the confident side is the address and the other side, cleaned, the name;
\* when both or neither are confident the later strategies decide.
C23_BracketEitherWay ==
    (parts.done /\ BracketForm.hit) =>
       LET inner == _clean_text(BracketForm.inner)
           rest == _clean_text(BracketForm.rest)
           ci == _is_confident_address(inner)
           cr == _is_confident_address(rest)
           later == AfterBracket(_clean_text(text))
       IN  /\ (cr /\ ~ci) => SplitResult = <<_clean_res_name(inner), rest>>
           /\ (ci /\ ~cr) => SplitResult = <<_clean_res_name(rest), inner>>
           /\ (ci = cr) => SplitResult = <<later.name, later.addr>>

\* the two parts of a text that a tab or a double space separates
TabParts ==
    IF Len(StrippedParts(text, <<"tab">>)) = 2 THEN StrippedParts(text, <<"tab">>)
    ELSE StrippedParts(text, <<" ", " ">>)

\* C27: a text of exactly two parts separated by a tab or a double space,
\* without brackets, exactly one part being a confident address, is split
\* into that part as the address and the other part, cleaned, as the name.
C27_TabOrDoubleSpace ==
    (/\ parts.done
     /\ ~Has(text, "[") /\ ~Has(text, "(")
     /\ Len(TabParts) = 2
     /\ _is_confident_address(TabParts[1]) # _is_confident_address(TabParts[2]))
       => IF _is_confident_address(TabParts[1])
          THEN SplitResult = <<_clean_res_name(TabParts[2]), TabParts[1]>>
          ELSE SplitResult = <<_clean_res_name(TabParts[1]), TabParts[2]>>

\* a name cell the Name Qualifier accepts as it is and that is no address
ProperName(t) ==
    /\ Len(t) >= 2
    /\ _clean_res_name(t) = t
    /\ ~_is_confident_address(t)

\* C24: a row with a name cell and an address cell is bridged as
\* "name (address)", and the record emitted for it has the name cell as its
\* name and the address cell as its address, whether or not the address
\* cell is a confident address.
C24_AddressColumnBypass ==
    (place_out.done /\ ProperName(cells.name) /\ cells.addr # <<>>) =>
       /\ extracted.place_raw = cells.name \o <<" ", "(">> \o cells.addr \o <<")">>
       /\ Len(place_out.records) = 1
       /\ place_out.records[1].res_name = cells.name
       /\ place_out.records[1].address = cells.addr
(***************************************************************************)
(* Stopping at the limit, and the order of completion (Spec).              *)
(***************************************************************************)
\* C26: once a run has reached its record limit, no file that has not begun
\* to be parsed is parsed: a future that is pending stays pending.
C26_StopsPromptly ==
    [][(limit > 0 /\ stats.total_processed >= limit)
         => \A f \in Files : fut[f].state = "pending" => fut'[f].state = "pending"]_vars

\* the tables that upserting the records one after the other can leave
RECURSIVE UpsertedInOrder(_, _)
UpsertedInOrder(stores, records) ==
    IF records = <<>> THEN stores
    ELSE UpsertedInOrder(
            UNION {{upsert_restaurant_record(st, Head(records), ex, 0).store :
                      ex \in Matches(st, Head(records))} : st \in stores},
            Tail(records))

\* the tables a run without limit can leave when it takes the futures in
\* the given order
RECURSIVE TakenInOrder(_, _, _)
TakenInOrder(order, seen, stores) ==
    IF order = <<>> THEN stores
    ELSE LET d == GlobalDedup(WorkerResult(Head(order)), seen)
         IN  TakenInOrder(Tail(order), d.seen, UpsertedInOrder(stores, d.unique))

\* the order in which scan_source_files lists the files
ScanOrder == [i \in 1..NumFiles |-> i]

\* the rows of a table, whatever their ids
Contents(st) == {st[i] : i \in Ids(st)}

\* C28: the table a run leaves does not depend on the order in which the
\* workers complete: after the first run, without limit, from an empty table
\* it holds the rows that taking the files in scan order leaves.
C28_OrderIndependent ==
    (Len(snaps) >= 1 /\ limit = 0) =>
       \E st \in TakenInOrder(ScanOrder, {}, {<<>>}) :
          Len(snaps[1]) = Len(st) /\ Contents(snaps[1]) = Contents(st)

(***************************************************************************)
(* Unique pairs (SpecUpsert) and failed commits (SpecFault).               *)
(***************************************************************************)
PairOf(row) == <<row.res_name, row.address>>

\* C29: after any sequence of upsert calls made one at a time on a table
\* that was empty, no two rows have the same (res_name, address) pair.
C29_UniquePairs ==
    \A i \in Ids(store) : \A j \in Ids(store) :
       i # j => PairOf(store[i]) # PairOf(store[j])

\* three rows of one name, the last inserted by a record with a name only
C29_Witness ==
    /\ Len(store) = 3
    /\ \A i \in Ids(store) : store[i].res_name = N1
    /\ last.created
    /\ KeyAddr(last.record) = <<>>

====
